---- MODULE Spec2Model ----
(***************************************************************************)
(* Model of the scdetect linker (src/apps/scdetect/detector/linker.cpp):   *)
(* the association of template match results of several template waveform *)
(* processors into multi-channel detections.                               *)
(* With it: the cached waveform handler (src/apps/scdetect/waveform.cpp)   *)
(* and the validators of the configuration (validators.cpp).               *)
(*                                                                         *)
(* Times are integers (ticks); coefficients are integers (scaled so that   *)
(* the mean of up to four of them is an integer).  An optional value       *)
(* (boost::optional) is a set: {} is boost::none, {v} holds v.             *)
(***************************************************************************)
EXTENDS Integers, Sequences, FiniteSets, TLC

(* ------------------------------ bounds --------------------------------- *)
\* a feed is taken when it leaves at most MaxQueue events in the queue
MaxQueue == 2
\* the wall clock runs from 0 to MaxTime
MaxTime == 1

\* the ids of the template waveform processors
ProcIds == {1, 2}
\* the pick time of the template arrivals handed to add
PickTimes == {0}
\* the pick times of the template arrivals handed to add in SpecRegister
RegisterPickTimes == {0, 1}
\* the start times of the time windows of the match results
Starts == {0, 1}
\* a null TemplateWaveformProcessor pointer
NullProc == 0
Coefs == {12, 24}
Lags == {0}
OnHolds == {0, 1}
ResultThresholds == {{}, {18}}
ArrivalOffsetThresholds == {{}, {0}}

(* ------------------------- boost::optional ----------------------------- *)
HasValue(o) == o # {}
Value(o) == CHOOSE v \in o : TRUE
\* a value_or that falls back to one arrival
ValueOrOne(o, d) == IF o = {} THEN 1 ELSE CHOOSE v \in o : TRUE
ValueOr(o, d) == IF o = {} THEN d ELSE CHOOSE v \in o : TRUE

\* The template start times a processor may report: none, or tick 0.
TemplateStartTimes == {{}, {0}}

\* Linker::Status
kWaitingForData == 0
kTerminated == 1

VARIABLES
  processors,          \* _processors: procId -> template arrival
  queue,               \* _queue: sequence of events, oldest first
  pot,                 \* _pot: the reference pick offset table
  potValid,            \* _potValid
  status,              \* _status
  thresArrivalOffset,  \* _thresArrivalOffset (optional)
  thresResult,         \* _thresResult (optional)
  minArrivals,         \* _minArrivals (optional)
  onHold,              \* _onHold
  now,                 \* the wall clock, Core::Time::GMT()
  emitted,             \* the results handed to the result callback by the last call
  lastCall,            \* the last call of the linker's interface
  script,              \* the log of a scripted run (SpecOrder, SpecAssociate, SpecWaveform)
  cache,               \* InMemoryCache::cache_: cache key -> the trace cached
  raw                  \* Cached::raw_

vars == <<processors, queue, pot, potValid, status, thresArrivalOffset,
          thresResult, minArrivals, onHold, now, emitted, lastCall, script,
          cache, raw>>

(* ------------------------------ helpers -------------------------------- *)
Abs(x) == IF x < 0 THEN -x ELSE x

RECURSIVE SetToSeq(_)
\* the elements of a set of integers in ascending order
SetToSeq(S) ==
  IF S = {} THEN <<>>
  ELSE LET m == CHOOSE x \in S : \A y \in S : x <= y
       IN <<m>> \o SetToSeq(S \ {m})

RECURSIVE SeqSum(_)
SeqSum(s) == IF s = <<>> THEN 0 ELSE Head(s) + SeqSum(Tail(s))

\* utils::cma: the mean of the values
cma(fits) == SeqSum(fits) \div Len(fits)

\* an Arrival: its pick time and the waveform stream id of its pick
Arrival(t, wfId) == [time |-> t, wfId |-> wfId]

(* ----------------------- POT (pick offset table) ----------------------- *)
\* POT::POT(arrivals): the table over the arrivals, every stream enabled
POT(arrivals) == [arrivals |-> arrivals, disabled |-> {}]

PotStreams(p) == {p.arrivals[i].wfId : i \in 1..Len(p.arrivals)}
PotEnabled(p) == PotStreams(p) \ p.disabled
\* the pick time the table holds for a stream (its first arrival of the stream)
PotPick(p, s) ==
  LET i == CHOOSE k \in 1..Len(p.arrivals) :
             /\ p.arrivals[k].wfId = s
             /\ \A j \in 1..(k - 1) : p.arrivals[j].wfId # s
  IN p.arrivals[i].time
\* M[s][t] = |pick(s) - pick(t)|
PotOffset(p, s, t) == Abs(PotPick(p, s) - PotPick(p, t))

\* POT::enable(): every stream enabled
enable(p) == [p EXCEPT !.disabled = {}]
\* POT::disable(wfIds)
disable(p, wfIds) == [p EXCEPT !.disabled = @ \cup wfIds]

\* validatePickOffsets(lhs, rhs, exceeded, thres): every pair of streams
\* enabled in both tables is compared; the streams of a pair whose offsets
\* differ by more than thres are collected in exceeded.
validatePickOffsets(lhs, rhs, thres) ==
  LET common == PotEnabled(lhs) \cap PotEnabled(rhs)
      exceeded == {s \in common : \E t \in common :
                     Abs(PotOffset(lhs, s, t) - PotOffset(rhs, s, t)) > thres}
  IN [ok |-> exceeded = {}, exceeded |-> exceeded]

(* ------------------------------ events --------------------------------- *)
\* Linker::Result::TemplateResult{arrival, matchResult}
TemplateResult(arrival, coefficient) ==
  [arrival |-> arrival, coefficient |-> coefficient]

\* Event{expired}: no results yet
NewEvent(expired) ==
  [expired |-> expired, results |-> <<>>, fit |-> 0, pot |-> POT(<<>>),
   refPickTime |-> {}, refProcId |-> 0]

getArrivalCount(ev) == Cardinality(DOMAIN ev.results)

\* the arrivals of the template results of an event, in the map's order
ResultArrivals(results) ==
  LET ids == SetToSeq(DOMAIN results)
  IN [i \in 1..Len(ids) |-> results[ids[i]].arrival]

ResultCoefficients(results) ==
  LET ids == SetToSeq(DOMAIN results)
  IN [i \in 1..Len(ids) |-> results[ids[i]].coefficient]

\* unordered_map::emplace: inserts unless the key is present
emplace(m, k, v) ==
  IF k \in DOMAIN m THEN m
  ELSE [x \in DOMAIN m \cup {k} |-> IF x = k THEN v ELSE m[x]]

\* a merge that computes the fit with the coefficient of the offered result,
\* whether or not the result was stored
mergeResultFitOfOffered(ev, procId, res, p) ==
  LET templResults == emplace(ev.results, procId, res)
      offered == [x \in DOMAIN templResults |->
                    IF x = procId THEN res ELSE templResults[x]]
      newRef == ev.refPickTime = {} \/ res.arrival.time < Value(ev.refPickTime)
  IN [ev EXCEPT
        !.results = templResults,
        !.fit = cma(ResultCoefficients(offered)),
        !.pot = p,
        !.refPickTime = IF newRef THEN {res.arrival.time} ELSE @,
        !.refProcId = IF newRef THEN procId ELSE @]

\* Linker::Event::mergeResult
mergeResult(ev, procId, res, p) ==
  LET templResults == emplace(ev.results, procId, res)
      newRef == ev.refPickTime = {} \/ res.arrival.time < Value(ev.refPickTime)
  IN [ev EXCEPT
        !.results = templResults,
        !.fit = cma(ResultCoefficients(templResults)),
        !.pot = p,
        !.refPickTime = IF newRef THEN {res.arrival.time} ELSE @,
        !.refProcId = IF newRef THEN procId ELSE @]

\* Linker::Result of an event, as handed to the result callback
ResultOf(ev) ==
  [results |-> ev.results, fit |-> ev.fit, pot |-> ev.pot,
   refProcId |-> ev.refProcId]

(* ------------------------- Linker::process ----------------------------- *)
\* a merge pass that also offers a result of an equal coefficient
MergeEventAtEqual(ev, refPot, procId, res, nProcs, thres) ==
  IF getArrivalCount(ev) < nProcs
  THEN IF \/ procId \notin DOMAIN ev.results
          \/ res.coefficient >= ev.results[procId].coefficient
       THEN LET arrivals == <<res.arrival>> \o ResultArrivals(ev.results)
                wfIds == {ev.results[p].arrival.wfId : p \in DOMAIN ev.results}
                candidate == POT(arrivals)
            IN IF HasValue(thres)
               THEN LET masked == disable(refPot, wfIds)
                        v == validatePickOffsets(masked, candidate, Value(thres))
                    IN IF ~v.ok \/ v.exceeded # {}
                       \* continue: the masks stay
                       THEN [event |-> ev, pot |-> masked]
                       ELSE [event |-> mergeResult(ev, procId, res, candidate),
                             pot |-> enable(masked)]
               ELSE [event |-> mergeResult(ev, procId, res, candidate),
                     pot |-> enable(refPot)]
       ELSE [event |-> ev, pot |-> enable(refPot)]
  ELSE [event |-> ev, pot |-> refPot]

\* One event of the merge pass (linker.cpp 141-171): the event as the pass
\* leaves it, and the reference POT (its masks) as the pass leaves it.
MergeEvent(ev, refPot, procId, res, nProcs, thres) ==
  IF getArrivalCount(ev) < nProcs
  THEN IF \/ procId \notin DOMAIN ev.results
          \/ res.coefficient > ev.results[procId].coefficient
       THEN LET arrivals == <<res.arrival>> \o ResultArrivals(ev.results)
                wfIds == {ev.results[p].arrival.wfId : p \in DOMAIN ev.results}
                candidate == POT(arrivals)
            IN IF HasValue(thres)
               THEN LET masked == disable(refPot, wfIds)
                        v == validatePickOffsets(masked, candidate, Value(thres))
                    IN IF ~v.ok \/ v.exceeded # {}
                       \* continue: the masks stay
                       THEN [event |-> ev, pot |-> masked]
                       ELSE [event |-> mergeResult(ev, procId, res, candidate),
                             pot |-> enable(masked)]
               ELSE [event |-> mergeResult(ev, procId, res, candidate),
                     pot |-> enable(refPot)]
       ELSE [event |-> ev, pot |-> enable(refPot)]
  ELSE [event |-> ev, pot |-> refPot]

RECURSIVE MergePassUntilFirstMerge(_, _, _, _, _, _, _)
\* a merge pass that ends with the first event the result is merged into
MergePassUntilFirstMerge(q, i, refPot, procId, res, nProcs, thres) ==
  IF i > Len(q) THEN [queue |-> q, pot |-> refPot]
  ELSE LET r == MergeEvent(q[i], refPot, procId, res, nProcs, thres)
       IN IF r.event # q[i]
          THEN [queue |-> [q EXCEPT ![i] = r.event], pot |-> r.pot]
          ELSE MergePassUntilFirstMerge(q, i + 1, r.pot, procId, res, nProcs,
                                        thres)

RECURSIVE MergePass(_, _, _, _, _, _, _)
\* The loop over the queue from its front (linker.cpp 139-172), from event i on.
MergePass(q, i, refPot, procId, res, nProcs, thres) ==
  IF i > Len(q) THEN [queue |-> q, pot |-> refPot]
  ELSE LET r == MergeEvent(q[i], refPot, procId, res, nProcs, thres)
       IN MergePass([q EXCEPT ![i] = r.event], i + 1, r.pot,
                    procId, res, nProcs, thres)

\* Linker::createPot: the table over the arrivals of the registered processors
createPot(procs) ==
  LET ids == SetToSeq(DOMAIN procs)
  IN POT([i \in 1..Len(ids) |-> procs[ids[i]]])

\* a sweep for which an event expires only after its deadline
IsReadyAfterDeadline(ev, t, nProcs, minArr) ==
  \/ getArrivalCount(ev) = nProcs
  \/ (t > ev.expired /\ getArrivalCount(ev) >= ValueOr(minArr, nProcs))

\* a sweep that asks every event, fully associated or not, for minArrivals
IsReadyAtMinArrivals(ev, t, nProcs, minArr) ==
  /\ getArrivalCount(ev) >= ValueOr(minArr, nProcs)
  /\ (getArrivalCount(ev) = nProcs \/ t >= ev.expired)

\* the sweep's first branch (linker.cpp 184-186)
IsReady(ev, t, nProcs, minArr) ==
  \/ getArrivalCount(ev) = nProcs
  \/ (t >= ev.expired /\ getArrivalCount(ev) >= ValueOr(minArr, nProcs))

\* a sweep that drops an event only after its deadline
IsDroppedAfterDeadline(ev, t, nProcs, minArr) ==
  ~IsReady(ev, t, nProcs, minArr) /\ t > ev.expired

\* the sweep's second branch (linker.cpp 193)
IsDropped(ev, t, nProcs, minArr) ==
  ~IsReady(ev, t, nProcs, minArr) /\ t >= ev.expired

\* linker.cpp 187: the result surpasses the result threshold
SurpassesThreshold(ev, thres) == thres = {} \/ ev.fit >= Value(thres)

\* a sweep that emits the ready events and erases only the dropped ones
SweepKeepingEmitted(q, t, nProcs, minArr, thres) ==
  LET Emit(ev) == IsReady(ev, t, nProcs, minArr) /\ SurpassesThreshold(ev, thres)
      Keep(ev) == ~IsDropped(ev, t, nProcs, minArr)
      out == SelectSeq(q, Emit)
  IN [emitted |-> [i \in 1..Len(out) |-> ResultOf(out[i])],
      queue |-> SelectSeq(q, Keep)]

\* a sweep that erases from the front of the queue as many events as it
\* collected
SweepErasingFront(q, t, nProcs, minArr, thres) ==
  LET Emit(ev) == IsReady(ev, t, nProcs, minArr) /\ SurpassesThreshold(ev, thres)
      Keep(ev) == ~IsReady(ev, t, nProcs, minArr) /\ ~IsDropped(ev, t, nProcs, minArr)
      out == SelectSeq(q, Emit)
      kept == Len(SelectSeq(q, Keep))
  IN [emitted |-> [i \in 1..Len(out) |-> ResultOf(out[i])],
      queue |-> SubSeq(q, Len(q) - kept + 1, Len(q))]

\* a sweep that emits the results from the back of the queue to its front
SweepNewestFirst(q, t, nProcs, minArr, thres) ==
  LET Emit(ev) == IsReady(ev, t, nProcs, minArr) /\ SurpassesThreshold(ev, thres)
      Keep(ev) == ~IsReady(ev, t, nProcs, minArr) /\ ~IsDropped(ev, t, nProcs, minArr)
      out == SelectSeq(q, Emit)
  IN [emitted |-> [i \in 1..Len(out) |-> ResultOf(out[Len(out) + 1 - i])],
      queue |-> SelectSeq(q, Keep)]

\* The sweep (linker.cpp 180-201): the results emitted, in the queue's order,
\* and the queue without the events collected in `ready`.
Sweep(q, t, nProcs, minArr, thres) ==
  LET Emit(ev) == IsReady(ev, t, nProcs, minArr) /\ SurpassesThreshold(ev, thres)
      Keep(ev) == ~IsReady(ev, t, nProcs, minArr) /\ ~IsDropped(ev, t, nProcs, minArr)
      out == SelectSeq(q, Emit)
  IN [emitted |-> [i \in 1..Len(out) |-> ResultOf(out[i])],
      queue |-> SelectSeq(q, Keep)]

\* a new event whose deadline is the time of the feed
CreateEventWithoutHold(procId, res, t, hold) ==
  mergeResult(NewEvent(t), procId, res, POT(<<res.arrival>>))

\* the new event of a feed (linker.cpp 174-178)
CreateEvent(procId, res, t, hold) ==
  mergeResult(NewEvent(t + hold), procId, res, POT(<<res.arrival>>))

(* ------------------------------ actions -------------------------------- *)
\* Linker::add.  The arrival of processor p is on the stream of p.
Add(p, t) ==
  /\ processors' = emplace(processors, p, Arrival(t, p))
  /\ potValid' = FALSE
  /\ emitted' = <<>>
  /\ lastCall' = [op |-> "add"]
  /\ UNCHANGED <<queue, pot, status, thresArrivalOffset, thresResult,
                 minArrivals, onHold, now>>

\* a remove that leaves the reference POT marked valid
RemoveKeepingPotValid(p) ==
  /\ processors' = [x \in DOMAIN processors \ {p} |-> processors[x]]
  /\ emitted' = <<>>
  /\ lastCall' = [op |-> "remove"]
  /\ UNCHANGED <<queue, pot, potValid, status, thresArrivalOffset, thresResult,
                 minArrivals, onHold, now>>

\* Linker::remove
Remove(p) ==
  /\ processors' = [x \in DOMAIN processors \ {p} |-> processors[x]]
  /\ potValid' = FALSE
  /\ emitted' = <<>>
  /\ lastCall' = [op |-> "remove"]
  /\ UNCHANGED <<queue, pot, status, thresArrivalOffset, thresResult,
                 minArrivals, onHold, now>>

\* a reset that clears the queue and leaves the status as it is
ResetKeepingStatus ==
  /\ queue' = <<>>
  /\ potValid' = FALSE
  /\ emitted' = <<>>
  /\ lastCall' = [op |-> "reset", cleared |-> Len(queue), from |-> status]
  /\ UNCHANGED <<processors, pot, status, thresArrivalOffset, thresResult,
                 minArrivals, onHold, now>>

\* Linker::reset
Reset ==
  /\ queue' = <<>>
  /\ potValid' = FALSE
  /\ status' = kWaitingForData
  /\ emitted' = <<>>
  /\ lastCall' = [op |-> "reset", cleared |-> Len(queue), from |-> status]
  /\ UNCHANGED <<processors, pot, thresArrivalOffset, thresResult,
                 minArrivals, onHold, now>>

\* a flush that asks for more than minArrivals arrivals
FlushesAboveMinArrivals(ev, nProcs, minArr, thres) ==
  /\ getArrivalCount(ev) > ValueOr(minArr, nProcs)
  /\ (thres = {} \/ ev.fit >= Value(thres))

\* the loop's test of Linker::terminate (linker.cpp 84-85)
Flushes(ev, nProcs, minArr, thres) ==
  /\ getArrivalCount(ev) >= ValueOr(minArr, nProcs)
  /\ (thres = {} \/ ev.fit >= Value(thres))

\* Linker::terminate
Terminate ==
  LET Flush(ev) == Flushes(ev, Cardinality(DOMAIN processors), minArrivals,
                           thresResult)
      out == SelectSeq(queue, Flush)
  IN /\ emitted' = [i \in 1..Len(out) |-> ResultOf(out[i])]
     /\ queue' = <<>>
     /\ status' = kTerminated
     /\ lastCall' = [op |-> "terminate", flushed |-> Len(queue)]
     /\ UNCHANGED <<processors, pot, potValid, thresArrivalOffset, thresResult,
                    minArrivals, onHold, now>>

\* a feed that does not look at the status
FeedRejectedIgnoringStatus(p, tst) ==
  \/ p = NullProc
  \/ p \notin DOMAIN processors
  \/ ~HasValue(tst)

\* Linker::feed returns without a call of process (linker.cpp 96-104, 110)
FeedRejected(p, tst) ==
  \/ p = NullProc
  \/ ~(status < kTerminated)
  \/ p \notin DOMAIN processors
  \/ ~HasValue(tst)

\* an arrival whose pick is moved by the template pick, not by its offset
\* to the template start time
NewArrivalAtTemplatePick(p, res, tst) ==
  [processors[p] EXCEPT !.time = res.start + res.lag + processors[p].time]

\* The arrival of a fed result (linker.cpp 108-116): the template arrival of
\* the processor with its pick time recomputed from the match result.
NewArrival(p, res, tst) ==
  LET pickOffset == processors[p].time - Value(tst)
  IN [processors[p] EXCEPT !.time = res.start + res.lag + pickOffset]

\* Linker::process up to the sweep (linker.cpp 129-178): the queue after the
\* merge pass with the new event at its back, and the reference POT.
Merged(p, tr) ==
  LET nProcs == Cardinality(DOMAIN processors)
      refPot == enable(IF potValid THEN pot ELSE createPot(processors))
      pass == MergePass(queue, 1, refPot, p, tr, nProcs, thresArrivalOffset)
  IN [queue |-> Append(pass.queue, CreateEvent(p, tr, now, onHold)),
      pot |-> pass.pot]

\* a feed that sweeps the queue although the processor is not registered
FeedSweepingWhenUnknown(p, res, tst) ==
  IF FeedRejected(p, tst)
  THEN LET swept == IF status < kTerminated /\ p \notin DOMAIN processors
                    THEN Sweep(queue, now, Cardinality(DOMAIN processors),
                               minArrivals, thresResult)
                    ELSE [emitted |-> <<>>, queue |-> queue]
       IN /\ emitted' = swept.emitted
          /\ queue' = swept.queue
          /\ lastCall' = [op |-> "feed", accepted |-> FALSE,
                          registered |-> p \in DOMAIN processors, swept |-> 0]
          /\ UNCHANGED <<processors, pot, potValid, status,
                         thresArrivalOffset, thresResult, minArrivals, onHold, now>>
  ELSE LET tr == TemplateResult(NewArrival(p, res, tst), res.coefficient)
           merged == Merged(p, tr)
           swept == Sweep(merged.queue, now, Cardinality(DOMAIN processors),
                          minArrivals, thresResult)
       IN /\ pot' = merged.pot
          /\ potValid' = TRUE
          /\ queue' = swept.queue
          /\ emitted' = swept.emitted
          /\ lastCall' = [op |-> "feed", accepted |-> TRUE,
                          registered |-> TRUE, swept |-> Len(merged.queue),
                          proc |-> p, res |-> tr]
          /\ UNCHANGED <<processors, status, thresArrivalOffset, thresResult,
                         minArrivals, onHold, now>>

\* Linker::feed -> Linker::process.  res is the match result (coefficient,
\* start of its time window, lag), tst the template start time of the processor.
Feed(p, res, tst) ==
  IF FeedRejected(p, tst)
  THEN /\ emitted' = <<>>
       /\ lastCall' = [op |-> "feed", accepted |-> FALSE,
                       registered |-> p \in DOMAIN processors, swept |-> 0]
       /\ UNCHANGED <<processors, queue, pot, potValid, status,
                      thresArrivalOffset, thresResult, minArrivals, onHold, now>>
  ELSE LET tr == TemplateResult(NewArrival(p, res, tst), res.coefficient)
           merged == Merged(p, tr)
           swept == Sweep(merged.queue, now, Cardinality(DOMAIN processors),
                          minArrivals, thresResult)
       IN /\ pot' = merged.pot
          /\ potValid' = TRUE
          /\ queue' = swept.queue
          /\ emitted' = swept.emitted
          /\ lastCall' = [op |-> "feed", accepted |-> TRUE,
                          registered |-> TRUE, swept |-> Len(merged.queue),
                          proc |-> p, res |-> tr]
          /\ UNCHANGED <<processors, status, thresArrivalOffset, thresResult,
                         minArrivals, onHold, now>>

\* Linker::setMinArrivals
SetMinArrivals(n) ==
  /\ minArrivals' = IF HasValue(n) /\ 1 > Value(n) THEN {} ELSE n
  /\ emitted' = <<>>
  /\ lastCall' = [op |-> "setMinArrivals"]
  /\ UNCHANGED <<processors, queue, pot, potValid, status, thresArrivalOffset,
                 thresResult, onHold, now>>

\* Linker::setThresResult
SetThresResult(thres) ==
  /\ thresResult' = thres
  /\ emitted' = <<>>
  /\ lastCall' = [op |-> "setThresResult"]
  /\ UNCHANGED <<processors, queue, pot, potValid, status, thresArrivalOffset,
                 minArrivals, onHold, now>>

\* Linker::setThresArrivalOffset
SetThresArrivalOffset(thres) ==
  /\ thresArrivalOffset' = thres
  /\ emitted' = <<>>
  /\ lastCall' = [op |-> "setThresArrivalOffset"]
  /\ UNCHANGED <<processors, queue, pot, potValid, status, thresResult,
                 minArrivals, onHold, now>>

\* Linker::setOnHold
SetOnHold(duration) ==
  /\ onHold' = duration
  /\ emitted' = <<>>
  /\ lastCall' = [op |-> "setOnHold"]
  /\ UNCHANGED <<processors, queue, pot, potValid, status, thresArrivalOffset,
                 thresResult, minArrivals, now>>

\* the wall clock advances between two calls
Tick ==
  /\ now < MaxTime
  /\ now' = now + 1
  /\ UNCHANGED <<processors, queue, pot, potValid, status, thresArrivalOffset,
                 thresResult, minArrivals, onHold, emitted, lastCall>>

MatchResults == [coefficient : Coefs, start : Starts, lag : Lags]
MinArrivalsInputs == {{}, {0}, {1}, {3}}

\* Linker::Linker(onHold, arrivalOffsetThres)
Init ==
  /\ processors = <<>>
  /\ queue = <<>>
  /\ pot = POT(<<>>)
  /\ potValid = FALSE
  /\ status = kWaitingForData
  /\ thresArrivalOffset \in ArrivalOffsetThresholds \ {{}}
  /\ thresResult = {}
  /\ minArrivals = {}
  /\ onHold \in OnHolds
  /\ now = 0
  /\ emitted = <<>>
  /\ lastCall = [op |-> "Linker"]
  /\ script = <<>>
  /\ cache = <<>>
  /\ raw = FALSE

AddStep ==
  /\ \E p \in ProcIds, t \in PickTimes : Add(p, t)
  /\ UNCHANGED <<script, cache, raw>>
RemoveStep ==
  /\ \E p \in ProcIds : Remove(p)
  /\ UNCHANGED <<script, cache, raw>>
ResetStep == Reset /\ UNCHANGED <<script, cache, raw>>
TerminateStep == Terminate /\ UNCHANGED <<script, cache, raw>>
TickStep == Tick /\ UNCHANGED <<script, cache, raw>>
FeedStep ==
  /\ \E p \in ProcIds \cup {NullProc}, res \in MatchResults,
        tst \in TemplateStartTimes : Feed(p, res, tst)
  /\ Len(queue') <= MaxQueue
  /\ UNCHANGED <<script, cache, raw>>
\* The linker is configured before its processors are added.
Configuring ==
  /\ processors = <<>>
  /\ lastCall.op \in {"Linker", "setMinArrivals", "setThresResult",
                      "setThresArrivalOffset", "setOnHold"}
SetMinArrivalsStep ==
  /\ Configuring
  /\ \E n \in MinArrivalsInputs : SetMinArrivals(n)
  /\ UNCHANGED <<script, cache, raw>>
SetThresResultStep ==
  /\ Configuring
  /\ \E t \in ResultThresholds : SetThresResult(t)
  /\ UNCHANGED <<script, cache, raw>>
SetThresArrivalOffsetStep ==
  /\ Configuring
  /\ \E t \in ArrivalOffsetThresholds : SetThresArrivalOffset(t)
  /\ UNCHANGED <<script, cache, raw>>
SetOnHoldStep ==
  /\ Configuring
  /\ \E d \in OnHolds : SetOnHold(d)
  /\ UNCHANGED <<script, cache, raw>>

Next ==
  \/ AddStep
  \/ RemoveStep
  \/ ResetStep
  \/ TerminateStep
  \/ FeedStep
  \/ SetMinArrivalsStep
  \/ SetThresResultStep
  \/ SetThresArrivalOffsetStep
  \/ SetOnHoldStep
  \/ TickStep

Spec == Init /\ [][Next]_vars

(* ------------------- registration (SpecRegister) ----------------------- *)
\* The calls of Spec with template arrivals of several pick times, and one
\* match result per processor.
RegisterAddStep ==
  /\ \E p \in ProcIds, t \in RegisterPickTimes : Add(p, t)
  /\ UNCHANGED <<script, cache, raw>>

RegisterFeedStep ==
  /\ \E p \in ProcIds :
       Feed(p, [coefficient |-> 12, start |-> 0, lag |-> 0], {0})
  /\ Len(queue') <= MaxQueue
  /\ UNCHANGED <<script, cache, raw>>

RegisterNext ==
  \/ RegisterAddStep
  \/ RemoveStep
  \/ ResetStep
  \/ TerminateStep
  \/ RegisterFeedStep
  \/ TickStep

SpecRegister == Init /\ [][RegisterNext]_vars

(* ------------------ replay in two orders (SpecOrder) ------------------- *)
\* A set of at most MaxResults match results is fed to a linker of two
\* processors in some order and the linker terminated; after a reset the same
\* results are fed in some order again.  The clock stands still and onHold is
\* positive: no deadline passes.
MaxResults == 3

OrderInputs == [proc : ProcIds, res : MatchResults]

\* what a detection holds: its match results and its fit
Detection(r) == [results |-> r.results, fit |-> r.fit]
Detections(rs) == [i \in 1..Len(rs) |-> Detection(rs[i])]

OrderInit ==
  /\ processors = [p \in ProcIds |-> Arrival(0, p)]
  /\ queue = <<>>
  /\ pot = POT(<<>>)
  /\ potValid = FALSE
  /\ status = kWaitingForData
  /\ thresArrivalOffset \in ArrivalOffsetThresholds
  /\ thresResult \in ResultThresholds
  /\ minArrivals \in {{}, {1}}
  /\ onHold \in OnHolds \ {0}
  /\ now = 0
  /\ emitted = <<>>
  /\ lastCall = [op |-> "add"]
  /\ \E S \in SUBSET OrderInputs :
       /\ Cardinality(S) \in 1..MaxResults
       /\ script = [run |-> 1, all |-> S, left |-> S, first |-> <<>>,
                    log |-> <<>>]
  /\ cache = <<>>
  /\ raw = FALSE

OrderFeed ==
  /\ status = kWaitingForData
  /\ \E x \in script.left :
       /\ Feed(x.proc, x.res, {0})
       /\ script' = [script EXCEPT !.left = @ \ {x},
                                   !.log = @ \o Detections(emitted')]
  /\ UNCHANGED <<cache, raw>>

OrderTerminate ==
  /\ status = kWaitingForData
  /\ script.left = {}
  /\ Terminate
  /\ script' = [script EXCEPT !.log = @ \o Detections(emitted')]
  /\ UNCHANGED <<cache, raw>>

OrderReset ==
  /\ status = kTerminated
  /\ script.run = 1
  /\ Reset
  /\ script' = [script EXCEPT !.run = 2, !.left = script.all,
                              !.first = script.log, !.log = <<>>]
  /\ UNCHANGED <<cache, raw>>

OrderNext == OrderFeed \/ OrderTerminate \/ OrderReset

SpecOrder == OrderInit /\ [][OrderNext]_vars

(* --------------- one result per processor (SpecAssociate) -------------- *)
\* A linker of two or three processors (template picks at 0) with an arrival
\* offset threshold and no result threshold; every processor delivers one
\* match result, at any time and in any order, and the linker may be
\* terminated.  script logs the results delivered and the results emitted.
AssociateProcIds == {1, 2, 3}
AssociateMinArrivals == {{}, {1}, {2}, {3}}

AssociateInit ==
  /\ \E P \in SUBSET AssociateProcIds :
       /\ Cardinality(P) >= 2
       /\ processors = [p \in P |-> Arrival(0, p)]
       /\ script = [left |-> P, fed |-> <<>>, times |-> {}, log |-> <<>>]
  /\ queue = <<>>
  /\ pot = POT(<<>>)
  /\ potValid = FALSE
  /\ status = kWaitingForData
  /\ thresArrivalOffset \in ArrivalOffsetThresholds \ {{}}
  /\ thresResult = {}
  /\ minArrivals \in AssociateMinArrivals
  /\ onHold \in OnHolds \ {0}
  /\ now = 0
  /\ emitted = <<>>
  /\ lastCall = [op |-> "add"]
  /\ cache = <<>>
  /\ raw = FALSE

AssociateFeed ==
  /\ status = kWaitingForData
  /\ \E p \in script.left, res \in MatchResults :
       /\ Feed(p, res, {0})
       /\ script' = [left |-> script.left \ {p},
                     fed |-> emplace(script.fed, p, lastCall'.res),
                     times |-> script.times \cup {now},
                     log |-> script.log \o emitted']
  /\ UNCHANGED <<cache, raw>>

AssociateTerminate ==
  /\ status = kWaitingForData
  /\ Terminate
  /\ script' = [script EXCEPT !.log = @ \o emitted']
  /\ UNCHANGED <<cache, raw>>

AssociateTick == Tick /\ UNCHANGED <<script, cache, raw>>

AssociateNext == AssociateFeed \/ AssociateTerminate \/ AssociateTick

SpecAssociate == AssociateInit /\ [][AssociateNext]_vars

(* ------------------ waveform handling (waveform.cpp) ------------------- *)
\* A trace (GenericRecord): the time window it covers, its sampling
\* frequency, and its samples, held as the operations applied so far to the
\* samples the underlying handler read.  A time window is [start, end].
MaxCalls == 2

StreamIds == {"", "NET.STA..HHZ"}
TimeWindows == {[start |-> 0, end |-> 0], [start |-> 1, end |-> 2],
                [start |-> 3, end |-> 4]}
\* the data the underlying handler can read, and its sampling frequency
DataWindows == {[start |-> 0, end |-> 4]}
SamplingFrequencies == {2}
TargetFrequencies == {0, 1}
FilterStrings == {"", "BW(4,1,10)", "BW("}
FilterMarginTimes == {1}
\* the filter strings Math::Filtering::InPlaceFilter::Create rejects
InvalidFilters == {"BW("}

\* WaveformHandlerIface::ProcessingConfig
ProcessingConfigs ==
  [filter_string : FilterStrings, filter_margin_time : FilterMarginTimes,
   target_frequency : TargetFrequencies, demean : BOOLEAN]

\* utils::WaveformStreamID::IsValid
IsValid(id) == id # ""

\* Core::TimeWindow::length and operator bool
Length(tw) == tw.end - tw.start
NonEmpty(tw) == Length(tw) > 0

\* the number of samples of a trace: trace.data()->size()
Size(trace) == (trace.end - trace.start) * trace.freq

\* waveform::Demean: removes the mean; the mean of a trace that was just
\* demeaned is zero
Demean(trace) ==
  IF trace.ops # <<>> /\ trace.ops[Len(trace.ops)] = "demean" THEN trace
  ELSE [trace EXCEPT !.ops = Append(@, "demean")]

\* waveform::Resample; resampled: the resampler returned a record
Resample(trace, target_frequency, resampled) ==
  IF target_frequency <= 0 \/ trace.freq = target_frequency
  THEN [ok |-> TRUE, trace |-> trace]
  ELSE IF ~resampled
  THEN [ok |-> FALSE, trace |-> trace]
  ELSE [ok |-> TRUE,
        trace |-> [trace EXCEPT !.freq = target_frequency,
                                !.ops = Append(@, "resample")]]

\* waveform::Filter
Filter(trace, filter_string) ==
  IF filter_string = "" \/ trace.freq <= 0 \/ filter_string \in InvalidFilters
  THEN [ok |-> FALSE, trace |-> trace]
  ELSE [ok |-> TRUE, trace |-> [trace EXCEPT !.ops = Append(@, "filter")]]

\* waveform::Trim
Trim(trace, tw) ==
  LET offset == (tw.start - trace.start) * trace.freq
      samples == Length(tw) * trace.freq
  IN IF offset < 0 \/ offset + samples > Size(trace)
     THEN [ok |-> FALSE, trace |-> trace]
     ELSE IF offset = 0 /\ samples = Size(trace)
     THEN [ok |-> TRUE, trace |-> trace]
     ELSE [ok |-> TRUE,
           trace |-> [trace EXCEPT
                        !.start = trace.start + offset \div trace.freq,
                        !.end = trace.start + (offset + samples) \div trace.freq,
                        !.ops = Append(@, "trim")]]

\* a Process that filters before it resamples
ProcessFilterBeforeResample(trace, config, tw_trim, resampled) ==
  LET d == IF config.demean THEN Demean(trace) ELSE trace
      ranD == IF config.demean THEN <<"demean">> ELSE <<>>
      filters == config.filter_string # ""
      f == IF filters THEN Filter(d, config.filter_string)
           ELSE [ok |-> TRUE, trace |-> d]
      ranF == IF filters THEN Append(ranD, "filter") ELSE ranD
      resamples == f.ok /\ config.target_frequency # 0
      r == IF resamples
           THEN Resample(f.trace, config.target_frequency, resampled).trace
           ELSE f.trace
      ranR == IF resamples THEN Append(ranF, "resample") ELSE ranF
      trims == f.ok /\ NonEmpty(tw_trim)
      t == IF trims THEN Trim(r, tw_trim) ELSE [ok |-> TRUE, trace |-> r]
      ranT == IF trims THEN Append(ranR, "trim") ELSE ranR
  IN [trace |-> t.trace, thrown |-> ~f.ok \/ ~t.ok, ran |-> ranT]

\* WaveformHandlerIface::Process, on the trace in place: the trace as the
\* call leaves it, whether it threw, and the steps it ran, in their order.
Process(trace, config, tw_trim, resampled) ==
  LET d == IF config.demean THEN Demean(trace) ELSE trace
      ranD == IF config.demean THEN <<"demean">> ELSE <<>>
      resamples == config.target_frequency # 0
      \* the value Resample returns is not read
      r == IF resamples
           THEN Resample(d, config.target_frequency, resampled).trace
           ELSE d
      ranR == IF resamples THEN Append(ranD, "resample") ELSE ranD
      filters == config.filter_string # ""
      f == IF filters THEN Filter(r, config.filter_string)
           ELSE [ok |-> TRUE, trace |-> r]
      ranF == IF filters THEN Append(ranR, "filter") ELSE ranR
      trims == f.ok /\ NonEmpty(tw_trim)
      t == IF trims THEN Trim(f.trace, tw_trim)
           ELSE [ok |-> TRUE, trace |-> f.trace]
      ranT == IF trims THEN Append(ranF, "trim") ELSE ranF
  IN [trace |-> t.trace, thrown |-> ~f.ok \/ ~t.ok, ran |-> ranT]

\* the window with the filter margin on both sides, when a filter is configured
WithMargin(tw, config) ==
  IF config.filter_string # ""
  THEN [start |-> tw.start - config.filter_margin_time,
        end |-> tw.end + config.filter_margin_time]
  ELSE tw

\* the disabled copy of a config
Disabled(config) ==
  [config EXCEPT !.filter_string = "", !.target_frequency = 0,
                 !.demean = FALSE]

\* The underlying handler's Get (WaveformHandler::Get): the data read, put
\* through Process; {} when it throws.
Fetch(tw, config) ==
  LET data == CHOOSE w \in DataWindows : TRUE
      freq == CHOOSE f \in SamplingFrequencies : TRUE
      read == [start |-> data.start, end |-> data.end, freq |-> freq,
               ops |-> <<>>]
      p == Process(read, config, tw, TRUE)
  IN IF p.thrown THEN {} ELSE {p.trace}

\* Cached::MakeCacheKey; std::hash<ProcessingConfig> is taken to be injective
MakeCacheKey(id, tw, config) ==
  IF raw
  THEN [id |-> id, tw |-> WithMargin(tw, config)]
  ELSE [id |-> id, tw |-> tw, config |-> config]

\* InMemoryCache::Set
Set(key, trace) ==
  [k \in DOMAIN cache \cup {key} |-> IF k = key THEN trace ELSE cache[k]]

\* the calls of Get so far
Calls == IF lastCall.op = "Get" THEN lastCall.n ELSE 0

\* what a call of Get leaves in lastCall: its arguments, whether the
\* resampler returned a record (TRUE when it was not asked), whether the key
\* was cached, the trace returned ({} when the call threw) and the steps run
GetCall(id, tw, config, resampled, cached, returned, ran) ==
  [op |-> "Get", n |-> Calls + 1, id |-> id, tw |-> tw, config |-> config,
   resampled |-> resampled, cached |-> cached, returned |-> returned,
   ran |-> ran]

\* the first trace returned for the arguments of a call
FirstReturned(id, tw, config, resampled, returned) ==
  LET args == [id |-> id, tw |-> tw, config |-> config,
               resampled |-> resampled]
  IN IF returned = {} \/ args \in DOMAIN script THEN script
     ELSE [a \in DOMAIN script \cup {args} |->
             IF a = args THEN Value(returned) ELSE script[a]]

\* Cached::Get of the in-memory cache.  The cache holds pointers: the trace a
\* hit hands to Process is the cached object, which changes with it.
Get(id, tw, config, resampled) ==
  LET key == MakeCacheKey(id, tw, config)
      cached == key \in DOMAIN cache
      fetched == Fetch(WithMargin(tw, config), Disabled(config))
  IN IF ~IsValid(id) \/ (~cached /\ fetched = {})
     THEN \* the call throws before it reaches the cache
          /\ lastCall' = GetCall(id, tw, config, TRUE, cached, {}, <<>>)
          /\ UNCHANGED <<cache, script>>
     ELSE LET trace == IF cached THEN cache[key] ELSE Value(fetched)
              p == Process(trace, config, tw, resampled)
              returned == IF p.thrown THEN {} ELSE {p.trace}
              asked == /\ config.target_frequency > 0
                       /\ trace.freq # config.target_frequency
              fed == resampled \/ ~asked
          IN /\ cache' =
                  IF cached THEN [cache EXCEPT ![key] = p.trace]
                  ELSE IF raw THEN Set(key, trace)
                  ELSE IF p.thrown THEN cache
                  ELSE Set(key, p.trace)
             /\ lastCall' = GetCall(id, tw, config, fed, cached, returned,
                                    p.ran)
             /\ script' = FirstReturned(id, tw, config, fed, returned)

GetStep ==
  /\ Calls < MaxCalls
  /\ \E id \in StreamIds, tw \in TimeWindows, config \in ProcessingConfigs,
        resampled \in BOOLEAN : Get(id, tw, config, resampled)
  /\ UNCHANGED <<processors, queue, pot, potValid, status, thresArrivalOffset,
                 thresResult, minArrivals, onHold, now, emitted, raw>>

\* Cached::Cached(waveform_handler, raw), beside a linker as constructed
WaveformInit ==
  /\ processors = <<>>
  /\ queue = <<>>
  /\ pot = POT(<<>>)
  /\ potValid = FALSE
  /\ status = kWaitingForData
  /\ thresArrivalOffset = {}
  /\ thresResult = {}
  /\ minArrivals = {}
  /\ onHold = 0
  /\ now = 0
  /\ emitted = <<>>
  /\ lastCall = [op |-> "Cached"]
  /\ script = <<>>
  /\ cache = <<>>
  /\ raw \in BOOLEAN

WaveformNext == GetStep

SpecWaveform == WaveformInit /\ [][WaveformNext]_vars

(* ------------- feeds as processors are removed (SpecSweep) ------------- *)
\* A linker of three processors (template picks at 0) without a result
\* threshold; results of the template's pick offsets are fed and processors
\* removed in any order, as the clock advances.
SweepInit ==
  /\ processors = [p \in AssociateProcIds |-> Arrival(0, p)]
  /\ queue = <<>>
  /\ pot = POT(<<>>)
  /\ potValid = FALSE
  /\ status = kWaitingForData
  /\ thresArrivalOffset \in ArrivalOffsetThresholds \ {{}}
  /\ thresResult = {}
  /\ minArrivals \in {{}, {1}}
  /\ onHold \in OnHolds \ {0}
  /\ now = 0
  /\ emitted = <<>>
  /\ lastCall = [op |-> "add"]
  /\ script = <<>>
  /\ cache = <<>>
  /\ raw = FALSE

SweepFeedStep ==
  /\ \E p \in AssociateProcIds, c \in Coefs :
       Feed(p, [coefficient |-> c, start |-> 0, lag |-> 0], {0})
  /\ Len(queue') <= MaxQueue
  /\ UNCHANGED <<script, cache, raw>>

SweepRemoveStep ==
  /\ \E p \in AssociateProcIds : Remove(p)
  /\ UNCHANGED <<script, cache, raw>>

SweepNext == SweepFeedStep \/ SweepRemoveStep \/ TickStep

SpecSweep == SweepInit /\ [][SweepNext]_vars

(* ----------------- feeds that keep occurring (SpecLive) --------------- *)
\* A linker of two processors (template picks at 0) without a result
\* threshold.  Results keep being fed as the clock advances up to MaxTime, and
\* the linker may be terminated and reset.
LiveInit ==
  /\ processors = [p \in ProcIds |-> Arrival(0, p)]
  /\ queue = <<>>
  /\ pot = POT(<<>>)
  /\ potValid = FALSE
  /\ status = kWaitingForData
  /\ thresArrivalOffset \in ArrivalOffsetThresholds \ {{}}
  /\ thresResult = {}
  /\ minArrivals \in {{}, {1}}
  /\ onHold \in OnHolds
  /\ now = 0
  /\ emitted = <<>>
  /\ lastCall = [op |-> "add"]
  /\ script = <<>>
  /\ cache = <<>>
  /\ raw = FALSE

\* a feed that is accepted
LiveFeedStep ==
  /\ status < kTerminated
  /\ \E p \in ProcIds, c \in Coefs :
       Feed(p, [coefficient |-> c, start |-> 0, lag |-> 0], {0})
  /\ Len(queue') <= MaxQueue
  /\ UNCHANGED <<script, cache, raw>>

LiveNext == LiveFeedStep \/ TickStep \/ TerminateStep \/ ResetStep

\* The wall clock advances (up to MaxTime) whatever the linker is asked to do.
SpecLive ==
  /\ LiveInit
  /\ [][LiveNext]_vars
  /\ WF_vars(TickStep)

(* -------------- feeds numbered by their picks (SpecCreation) ----------- *)
\* A linker of two processors (template picks at 0).  The k-th feed delivers a
\* match result whose time window starts at k, so that its pick is at k: the
\* earliest pick an event holds is the number of the feed that created it.
MaxFeeds == 4

CreationInit ==
  /\ processors = [p \in ProcIds |-> Arrival(0, p)]
  /\ queue = <<>>
  /\ pot = POT(<<>>)
  /\ potValid = FALSE
  /\ status = kWaitingForData
  /\ thresArrivalOffset \in ArrivalOffsetThresholds
  /\ thresResult = {}
  /\ minArrivals \in {{}, {1}}
  /\ onHold \in OnHolds
  /\ now = 0
  /\ emitted = <<>>
  /\ lastCall = [op |-> "add"]
  /\ script = [fed |-> 0]
  /\ cache = <<>>
  /\ raw = FALSE

CreationFeed ==
  /\ status < kTerminated
  /\ script.fed < MaxFeeds
  /\ \E p \in ProcIds, c \in Coefs :
       Feed(p, [coefficient |-> c, start |-> script.fed + 1, lag |-> 0], {0})
  /\ script' = [fed |-> script.fed + 1]
  /\ UNCHANGED <<cache, raw>>

CreationTerminate ==
  /\ status < kTerminated
  /\ TerminateStep

CreationNext == CreationFeed \/ CreationTerminate \/ TickStep

SpecCreation == CreationInit /\ [][CreationNext]_vars

(* ---------------- the pick of a fed result (SpecPick) ------------------ *)
\* A linker of two processors with template picks at 1 or 2; the match
\* results fed differ in the start of their time window and in their lag, the
\* processors in their template start time.  script holds the last feed.
PickTemplateStartTimes == {{0}, {1}}
PickLags == {0, 1}
PickTemplatePicks == {1, 2}

PickInit ==
  /\ processors \in [ProcIds -> [time : PickTemplatePicks, wfId : ProcIds]]
  /\ \A p \in ProcIds : processors[p].wfId = p
  /\ queue = <<>>
  /\ pot = POT(<<>>)
  /\ potValid = FALSE
  /\ status = kWaitingForData
  /\ thresArrivalOffset \in ArrivalOffsetThresholds \ {{}}
  /\ thresResult = {}
  /\ minArrivals = {}
  /\ onHold \in OnHolds \ {0}
  /\ now = 0
  /\ emitted = <<>>
  /\ lastCall = [op |-> "add"]
  /\ script = <<>>
  /\ cache = <<>>
  /\ raw = FALSE

PickFeedStep ==
  /\ \E p \in ProcIds, c \in Coefs, start \in Starts, lag \in PickLags,
        tst \in PickTemplateStartTimes :
       /\ Feed(p, [coefficient |-> c, start |-> start, lag |-> lag], tst)
       /\ script' = [proc |-> p, start |-> start, lag |-> lag,
                     tst |-> Value(tst)]
  /\ Len(queue') <= MaxQueue
  /\ UNCHANGED <<cache, raw>>

PickNext == PickFeedStep \/ ResetStep

SpecPick == PickInit /\ [][PickNext]_vars

(* --------------- two callers of one cache (SpecThreads) ---------------- *)
\* Two threads call Cached::Get of one in-memory cache for the same stream,
\* window and config.  Cached::Get and InMemoryCache take no lock: the
\* statements of the two calls interleave.  The records live on a heap
\* (script.heap, record id -> trace); the cache and the callers hold
\* pointers (record ids).  script holds, per thread, the statement it is at
\* (pc), its local `trace` pointer (ptr), its local `cached`, the processing
\* steps it still has to run (todo) and the trace it returned as the caller
\* saw it at the return (ret).
ThreadIds == {1, 2}
NullRecord == 0
ThreadStreamId == "NET.STA..HHZ"
ThreadTimeWindow == [start |-> 1, end |-> 2]
ThreadConfigs ==
  {c \in ProcessingConfigs :
     c.target_frequency = 0 /\ c.filter_string \in {"", "BW(4,1,10)"}}

\* the processing steps of Process for a config, in their order (177-203)
ProcessSteps(config, tw) ==
  (IF config.demean THEN <<"demean">> ELSE <<>>)
  \o (IF config.target_frequency # 0 THEN <<"resample">> ELSE <<>>)
  \o (IF config.filter_string # "" THEN <<"filter">> ELSE <<>>)
  \o (IF NonEmpty(tw) THEN <<"trim">> ELSE <<>>)

\* one processing step on a trace; the value Resample returns is not read
ProcessStep(trace, step, config, tw) ==
  IF step = "demean" THEN [ok |-> TRUE, trace |-> Demean(trace)]
  ELSE IF step = "resample"
  THEN [ok |-> TRUE,
        trace |-> Resample(trace, config.target_frequency, TRUE).trace]
  ELSE IF step = "filter" THEN Filter(trace, config.filter_string)
  ELSE Trim(trace, tw)

\* a new record on the heap
NewRecord == Len(script.heap) + 1

ThreadKey == MakeCacheKey(ThreadStreamId, ThreadTimeWindow, script.config)

\* some other thread is inside InMemoryCache::Set
Storing(t) == \E u \in ThreadIds \ {t} : script.pc[u] = "storing"

\* line 350, InMemoryCache::Get.  A lookup that runs while another thread
\* writes the map races with it: it may miss, or find what is being stored.
ThreadLookup(t) ==
  /\ script.pc[t] = "lookup"
  /\ \E found \in
        (IF ThreadKey \in DOMAIN cache THEN {cache[ThreadKey]} ELSE {NullRecord})
        \cup (IF Storing(t)
              THEN {NullRecord} \cup
                   {script.ptr[u] : u \in {v \in ThreadIds \ {t} :
                                             script.pc[v] = "storing"}}
              ELSE {}) :
       script' = [script EXCEPT
                    !.ptr[t] = found,
                    !.cached[t] = found # NullRecord,
                    !.todo[t] = ProcessSteps(script.config, ThreadTimeWindow),
                    !.pc[t] = IF found # NullRecord THEN "process" ELSE "fetch"]
  /\ UNCHANGED cache

\* lines 351-367: the underlying handler returns a new record
ThreadFetch(t) ==
  /\ script.pc[t] = "fetch"
  /\ LET fetched == Fetch(WithMargin(ThreadTimeWindow, script.config),
                          Disabled(script.config))
     IN script' = [script EXCEPT
                     !.heap = Append(@, Value(fetched)),
                     !.ptr[t] = NewRecord,
                     !.pc[t] = IF raw THEN "store" ELSE "process"]
  /\ UNCHANGED cache

\* lines 371 and 384: InMemoryCache::Set is entered
ThreadStoreBegin(t) ==
  /\ script.pc[t] = "store"
  /\ script' = [script EXCEPT !.pc[t] = "storing"]
  /\ UNCHANGED cache

\* InMemoryCache::Set returns: cache_[key] = value
ThreadStoreEnd(t) ==
  /\ script.pc[t] = "storing"
  /\ cache' = Set(ThreadKey, script.ptr[t])
  /\ script' = [script EXCEPT !.pc[t] = IF raw THEN "copy" ELSE "return"]

\* line 377: the copy of the raw record
ThreadCopy(t) ==
  /\ script.pc[t] = "copy"
  /\ script' = [script EXCEPT
                  !.heap = Append(@, script.heap[script.ptr[t]]),
                  !.ptr[t] = NewRecord,
                  !.pc[t] = "process"]
  /\ UNCHANGED cache

\* line 380: the next step of Process, in place on the record of the thread
ThreadProcess(t) ==
  /\ script.pc[t] = "process"
  /\ IF script.todo[t] = <<>>
     THEN script' = [script EXCEPT
                       !.pc[t] = IF ~script.cached[t] /\ ~raw THEN "store"
                                 ELSE "return"]
     ELSE LET r == ProcessStep(script.heap[script.ptr[t]], Head(script.todo[t]),
                               script.config, ThreadTimeWindow)
          IN script' = [script EXCEPT
                          !.heap[script.ptr[t]] = r.trace,
                          !.todo[t] = Tail(@),
                          !.pc[t] = IF r.ok THEN "process" ELSE "thrown"]
  /\ UNCHANGED cache

\* line 387
ThreadReturn(t) ==
  /\ script.pc[t] = "return"
  /\ script' = [script EXCEPT !.ret[t] = {script.heap[script.ptr[t]]},
                              !.pc[t] = "done"]
  /\ UNCHANGED cache

ThreadsInit ==
  /\ processors = <<>>
  /\ queue = <<>>
  /\ pot = POT(<<>>)
  /\ potValid = FALSE
  /\ status = kWaitingForData
  /\ thresArrivalOffset = {}
  /\ thresResult = {}
  /\ minArrivals = {}
  /\ onHold = 0
  /\ now = 0
  /\ emitted = <<>>
  /\ lastCall = [op |-> "Cached"]
  /\ \E config \in ThreadConfigs :
       script = [config |-> config,
                 pc |-> [t \in ThreadIds |-> "lookup"],
                 ptr |-> [t \in ThreadIds |-> NullRecord],
                 cached |-> [t \in ThreadIds |-> FALSE],
                 todo |-> [t \in ThreadIds |-> <<>>],
                 ret |-> [t \in ThreadIds |-> {}],
                 heap |-> <<>>]
  /\ cache = <<>>
  /\ raw \in BOOLEAN

\* what no statement of Cached::Get writes
ThreadFrame ==
  UNCHANGED <<processors, queue, pot, potValid, status, thresArrivalOffset,
              thresResult, minArrivals, onHold, now, emitted, lastCall, raw>>

ThreadLookupStep == (\E t \in ThreadIds : ThreadLookup(t)) /\ ThreadFrame
ThreadFetchStep == (\E t \in ThreadIds : ThreadFetch(t)) /\ ThreadFrame
ThreadStoreBeginStep == (\E t \in ThreadIds : ThreadStoreBegin(t)) /\ ThreadFrame
ThreadStoreEndStep == (\E t \in ThreadIds : ThreadStoreEnd(t)) /\ ThreadFrame
ThreadCopyStep == (\E t \in ThreadIds : ThreadCopy(t)) /\ ThreadFrame
ThreadProcessStep == (\E t \in ThreadIds : ThreadProcess(t)) /\ ThreadFrame
ThreadReturnStep == (\E t \in ThreadIds : ThreadReturn(t)) /\ ThreadFrame

ThreadsNext ==
  \/ ThreadLookupStep
  \/ ThreadFetchStep
  \/ ThreadStoreBeginStep
  \/ ThreadStoreEndStep
  \/ ThreadCopyStep
  \/ ThreadProcessStep
  \/ ThreadReturnStep

SpecThreads == ThreadsInit /\ [][ThreadsNext]_vars

(* ------------------- config validation (validators.cpp) ---------------- *)
\* Thresholds are counted in units of 0.5e-6 s: 2.0e-6 s is 4 units.
kMinArrivalOffsetThreshold == 4
\* the largest number of stream configs of a detector
MaxStreamConfigs == 3

StreamConfigCounts == 0..MaxStreamConfigs
MinArrivalsConfigs == -2..(MaxStreamConfigs + 1)
ArrivalOffsetConfigs == -2..(kMinArrivalOffsetThreshold + 2)

\* a validation that asks for more than the smallest threshold
ValidateArrivalOffsetThresholdAbove(thres) ==
  thres < 0 \/ thres > kMinArrivalOffsetThreshold

\* config::ValidateArrivalOffsetThreshold
ValidateArrivalOffsetThreshold(thres) ==
  thres < 0 \/ thres >= kMinArrivalOffsetThreshold

\* config::ValidateMinArrivals; the conditional operator takes the whole of
\* n >= 1 && n <= num_stream_configs as its third operand
ValidateMinArrivals(n, num_stream_configs) ==
  IF n < 0 THEN TRUE
  ELSE IF num_stream_configs > 0 THEN n >= 1
  ELSE n >= 1 /\ n <= num_stream_configs

\* the config values under validation, beside a linker as constructed
ValidateInit ==
  /\ processors = <<>>
  /\ queue = <<>>
  /\ pot = POT(<<>>)
  /\ potValid = FALSE
  /\ status = kWaitingForData
  /\ thresArrivalOffset = {}
  /\ thresResult = {}
  /\ minArrivals = {}
  /\ onHold = 0
  /\ now = 0
  /\ emitted = <<>>
  /\ lastCall = [op |-> "config"]
  /\ script \in [n : MinArrivalsConfigs, num_stream_configs : StreamConfigCounts,
                 thres : ArrivalOffsetConfigs]
  /\ cache = <<>>
  /\ raw = FALSE

ValidateMinArrivalsStep ==
  /\ lastCall' = [op |-> "ValidateMinArrivals",
                  result |-> ValidateMinArrivals(script.n,
                                                 script.num_stream_configs)]
  /\ UNCHANGED <<processors, queue, pot, potValid, status, thresArrivalOffset,
                 thresResult, minArrivals, onHold, now, emitted, script,
                 cache, raw>>

ValidateArrivalOffsetThresholdStep ==
  /\ lastCall' = [op |-> "ValidateArrivalOffsetThreshold",
                  result |-> ValidateArrivalOffsetThreshold(script.thres)]
  /\ UNCHANGED <<processors, queue, pot, potValid, status, thresArrivalOffset,
                 thresResult, minArrivals, onHold, now, emitted, script,
                 cache, raw>>

ValidateNext == ValidateMinArrivalsStep \/ ValidateArrivalOffsetThresholdStep

SpecValidate == ValidateInit /\ [][ValidateNext]_vars

(* ------------------------------- claims -------------------------------- *)
\* the minimum number of arrivals in effect: the configured one, or the
\* number of registered processors
EffectiveMinArrivals ==
  IF minArrivals = {} THEN Cardinality(DOMAIN processors) ELSE Value(minArrivals)

\* the results of the events of q that satisfy Test, in the order of q
ResultsWhere(q, Test(_)) ==
  LET out == SelectSeq(q, Test)
  IN [i \in 1..Len(out) |-> ResultOf(out[i])]

\* A step of feed: every call but the advance of the clock leaves its name in
\* lastCall, and only the clock changes now.
IsFeedStep == lastCall'.op = "feed" /\ now' = now
IsAcceptedFeedStep == IsFeedStep /\ lastCall'.accepted

\* C1: once terminate() has returned and until reset() is called (the status
\* is Terminated), every feed, of a registered or an unregistered processor,
\* is a no-op: nothing is emitted, the queue is empty and stays so, the
\* status stays Terminated.
C1_FeedAfterTerminateIsNoOp ==
  [][(status = kTerminated /\ IsFeedStep) =>
       /\ emitted' = <<>>
       /\ queue = <<>>
       /\ queue' = queue
       /\ status' = kTerminated]_vars

\* a feed of a registered processor came after terminate()
C1_Witness ==
  /\ status = kTerminated
  /\ lastCall.op = "feed"
  /\ lastCall.registered

C2_Qualifies(ev) ==
  /\ getArrivalCount(ev) >= EffectiveMinArrivals
  /\ (thresResult # {} => ev.fit >= Value(thresResult))

\* C2: terminate() emits exactly the queued events with at least minArrivals
\* arrivals (the number of processors when unspecified) and a fit of at
\* least resultThreshold (when set), once each, in the queue's order and
\* whatever their deadline; afterwards the queue is empty and the status is
\* Terminated.
C2_TerminateFlushes ==
  [][Terminate =>
       /\ emitted' = ResultsWhere(queue, C2_Qualifies)
       /\ queue' = <<>>
       /\ status' = kTerminated]_vars

\* terminate() found two events or more, emitted one and dropped one
C2_Witness ==
  /\ lastCall.op = "terminate"
  /\ status = kTerminated
  /\ queue = <<>>
  /\ Len(emitted) >= 1
  /\ lastCall.flushed > Len(emitted)

\* what the claim says of an event at the end of a feed
C3_Handling(ev) ==
  LET count == getArrivalCount(ev)
      full == count = Cardinality(DOMAIN processors)
      expired == now >= ev.expired
      fitOk == thresResult = {} \/ ev.fit >= Value(thresResult)
  IN IF full \/ (expired /\ count >= EffectiveMinArrivals)
     THEN (IF fitOk THEN "removed and emitted" ELSE "removed")
     ELSE (IF expired THEN "removed" ELSE "kept")

C3_Emitted(ev) == C3_Handling(ev) = "removed and emitted"
C3_Kept(ev) == C3_Handling(ev) = "kept"

\* C3: at the end of an accepted feed every event of the queue (the merged
\* events and the new one) is handled by its arrival count, deadline and fit:
\* fully associated, or expired with minArrivals arrivals: removed, and
\* emitted iff its fit reaches resultThreshold; expired with fewer arrivals:
\* removed; otherwise kept.
C3_SweepHandlesEachEvent ==
  [][IsAcceptedFeedStep =>
       LET m == Merged(lastCall'.proc, lastCall'.res).queue
       IN /\ queue' = SelectSeq(m, C3_Kept)
          /\ emitted' = ResultsWhere(m, C3_Emitted)]_vars

\* a sweep emitted an event that had expired with fewer arrivals than there
\* are processors, and kept the new event
C3_Witness ==
  /\ lastCall.op = "feed"
  /\ lastCall.accepted
  /\ Len(emitted) = 1
  /\ Cardinality(DOMAIN emitted[1].results) < Cardinality(DOMAIN processors)
  /\ Len(queue) = 1
  /\ lastCall.swept = 2

\* C4: the processor ids of every queued event are registered processor ids.
C4_EventProcIdsRegistered ==
  \A i \in 1..Len(queue) : DOMAIN queue[i].results \subseteq DOMAIN processors

C5_RefIsEarliest(r) ==
  /\ r.refProcId \in DOMAIN r.results
  /\ \A q \in DOMAIN r.results :
       r.results[r.refProcId].arrival.time <= r.results[q].arrival.time

\* C5: the refProcId of every queued event and of every emitted result is a
\* member of the event whose stored arrival has the smallest pick time of
\* the arrivals stored in the event.
C5_RefProcIdIsEarliest ==
  /\ \A i \in 1..Len(queue) : C5_RefIsEarliest(queue[i])
  /\ \A i \in 1..Len(emitted) : C5_RefIsEarliest(emitted[i])

\* the pick offset validation of event ev with the result tr succeeds, or no
\* arrivalOffsetThreshold is set
C6_Validated(ev, tr) ==
  \/ thresArrivalOffset = {}
  \/ LET refPot == enable(IF potValid THEN pot ELSE createPot(processors))
         wfIds == {ev.results[q].arrival.wfId : q \in DOMAIN ev.results}
         candidate == POT(<<tr.arrival>> \o ResultArrivals(ev.results))
         v == validatePickOffsets(disable(refPot, wfIds), candidate,
                                  Value(thresArrivalOffset))
     IN v.ok /\ v.exceeded = {}

\* C6: a fed result tr of processor p replaces, in every queued event that is
\* not fully associated and holds a result of p with a smaller coefficient
\* (the validation succeeding), the result of p, and the fit of the event is
\* the mean computed with the coefficient of tr.
C6_HigherCoefficientReplaces ==
  [][IsAcceptedFeedStep =>
       LET p == lastCall'.proc
           tr == lastCall'.res
           m == Merged(p, tr).queue
       IN \A i \in 1..Len(queue) :
            ( /\ getArrivalCount(queue[i]) < Cardinality(DOMAIN processors)
              /\ p \in DOMAIN queue[i].results
              /\ queue[i].results[p].coefficient < tr.coefficient
              /\ C6_Validated(queue[i], tr) )
            => /\ m[i].results[p] = tr
               /\ m[i].fit * getArrivalCount(m[i]) =
                    SeqSum(ResultCoefficients(
                      [queue[i].results EXCEPT ![p] = tr]))]_vars

C7_FitIsMean(r) ==
  /\ \A q \in DOMAIN r.results : r.results[q].arrival.wfId = q
  /\ r.fit * Cardinality(DOMAIN r.results) =
       SeqSum(ResultCoefficients(r.results))

\* C7: every queued event and every emitted result holds one match result
\* per processor id, the one of that processor, and its fit is the
\* arithmetic mean of the coefficients of the match results it holds.
C7_OneResultPerProcAndFitIsMean ==
  /\ \A i \in 1..Len(queue) : C7_FitIsMean(queue[i])
  /\ \A i \in 1..Len(emitted) : C7_FitIsMean(emitted[i])

\* a result of two match results with different coefficients was emitted
\* while an event is queued
C7_Witness ==
  /\ Len(queue) >= 1
  /\ Len(emitted) >= 1
  /\ \E q1, q2 \in DOMAIN emitted[1].results :
       emitted[1].results[q1].coefficient < emitted[1].results[q2].coefficient

\* C8: add(proc, arrival) for a registered processor id replaces the arrival
\* registered for it, leaves the number of registered processors unchanged
\* and marks the reference POT invalid.
C8_AddReplacesBinding ==
  [][\A p \in ProcIds, t \in RegisterPickTimes :
       (lastCall'.op = "add" /\ p \in DOMAIN processors /\ Add(p, t)) =>
         /\ processors'[p] = Arrival(t, p)
         /\ Cardinality(DOMAIN processors') = Cardinality(DOMAIN processors)
         /\ potValid' = FALSE]_vars

\* C9: every result handed to the result callback, by a sweep or by
\* terminate(), has at least the effective minArrivals arrivals and, when a
\* resultThreshold is set, a fit of at least resultThreshold.
C9_EmittedReachMinArrivals ==
  \A i \in 1..Len(emitted) :
    /\ Cardinality(DOMAIN emitted[i].results) >= EffectiveMinArrivals
    /\ (thresResult # {} => emitted[i].fit >= Value(thresResult))

\* how often x occurs in the sequence s
Occurrences(s, x) == Cardinality({i \in 1..Len(s) : s[i] = x})
SameMultiset(s, t) ==
  \A i \in 1..Len(s) + Len(t) :
    LET x == IF i <= Len(s) THEN s[i] ELSE t[i - Len(s)]
    IN Occurrences(s, x) = Occurrences(t, x)

\* C10: for fixed processors and thresholds, and match results fed inside
\* one on-hold window, the multiset of the detections emitted by the feeds
\* and the terminate() that follows them is the same for every order of the
\* feeds.
C10_OrderIndependent ==
  (script.run = 2 /\ status = kTerminated) =>
    SameMultiset(script.first, script.log)

\* C11: a feed for a processor id that is not registered is dropped: nothing
\* is emitted, and the queue, the registered processors, the reference POT
\* and its validity, and the status are unchanged.
C11_UnregisteredFeedDropped ==
  [][(IsFeedStep /\ ~lastCall'.registered) =>
       /\ emitted' = <<>>
       /\ ~lastCall'.accepted
       /\ UNCHANGED <<queue, processors, pot, potValid, status>>]_vars

\* a feed of an unregistered processor came while the linker waits for data
\* with an expired event in its queue
C11_Witness ==
  /\ lastCall.op = "feed"
  /\ ~lastCall.registered
  /\ status = kWaitingForData
  /\ processors # <<>>
  /\ \E i \in 1..Len(queue) : now >= queue[i].expired

\* C12: reset(), in any status, removes every queued event without emitting,
\* marks the reference POT invalid and sets the status to WaitingForData; it
\* leaves the processors and the thresholds unchanged, and feeds of
\* registered processors are accepted afterwards.
C12_ResetDiscards ==
  [][(lastCall'.op = "reset" /\ now' = now) =>
       /\ queue' = <<>>
       /\ emitted' = <<>>
       /\ potValid' = FALSE
       /\ status' = kWaitingForData
       /\ UNCHANGED <<processors, thresArrivalOffset, thresResult,
                      minArrivals, onHold>>
       /\ \A p \in DOMAIN processors :
            \A tst \in TemplateStartTimes \ {{}} : ~(FeedRejected(p, tst))']_vars

\* a reset came in the Terminated status with processors registered
C12_Witness ==
  /\ lastCall.op = "reset"
  /\ lastCall.from = kTerminated
  /\ status = kWaitingForData
  /\ processors # <<>>

\* C13: a minArrivals below 1 is stored as unspecified, and with minArrivals
\* unspecified no result with fewer arrivals than there are registered
\* processors is emitted, at a deadline or at terminate().
C13_DefaultMinArrivalsIsAll ==
  /\ (HasValue(minArrivals) => Value(minArrivals) >= 1)
  /\ (minArrivals = {} =>
        \A i \in 1..Len(emitted) :
          Cardinality(DOMAIN emitted[i].results) >=
            Cardinality(DOMAIN processors))

\* with minArrivals unspecified and no result threshold, a sweep removed an
\* expired event of fewer arrivals than processors without emitting it
C13_Witness ==
  /\ minArrivals = {}
  /\ thresResult = {}
  /\ lastCall.op = "feed"
  /\ lastCall.accepted
  /\ emitted = <<>>
  /\ lastCall.swept > Len(queue)
  /\ onHold >= 1

\* the event ev is eligible for the result tr of processor p, by itself: not
\* fully associated, without a result of p or with one of a lower
\* coefficient, and passing the pick offset validation
C14_Eligible(ev, p, tr) ==
  /\ getArrivalCount(ev) < Cardinality(DOMAIN processors)
  /\ (p \notin DOMAIN ev.results \/ ev.results[p].coefficient < tr.coefficient)
  /\ C6_Validated(ev, tr)

C15_AllMatchInOneWindow ==
  /\ script.left = {}
  /\ \A t1, t2 \in script.times : t1 < t2 + onHold
  /\ \A p, q \in DOMAIN script.fed :
       Abs(Abs(script.fed[p].arrival.time - script.fed[q].arrival.time)
           - Abs(processors[p].time - processors[q].time))
         <= Value(thresArrivalOffset)

C16_ThirdDeviates ==
  /\ DOMAIN processors = {1, 2, 3}
  /\ DOMAIN script.fed = {1, 2, 3}
  /\ script.fed[1].arrival.time = script.fed[2].arrival.time
  /\ Abs(script.fed[3].arrival.time - script.fed[1].arrival.time)
       > Value(thresArrivalOffset)

\* C16: with three processors and an arrival offset threshold, when 1 and 2
\* match the reference and the pick of 3 deviates, the result of 3 is in no
\* event and no detection together with 1 or 2, a detection of exactly
\* {1, 2} is emitted iff minArrivals <= 2, and with minArrivals unspecified
\* or 3 no detection is emitted.
C16_DeviatingThirdNotMerged ==
  C16_ThirdDeviates =>
    /\ \A i \in 1..Len(queue) :
         3 \in DOMAIN queue[i].results => DOMAIN queue[i].results = {3}
    /\ \A i \in 1..Len(script.log) :
         3 \in DOMAIN script.log[i].results =>
           DOMAIN script.log[i].results = {3}
    /\ (minArrivals \in {{}, {3}} => script.log = <<>>)
    /\ (status = kTerminated =>
          ((\E i \in 1..Len(script.log) :
              DOMAIN script.log[i].results = {1, 2})
            <=> minArrivals \in {{1}, {2}}))

C18_ZeroOnHold ==
  [][(IsAcceptedFeedStep /\ onHold = 0) =>
       LET p == lastCall'.proc
           tr == lastCall'.res
           m == Merged(p, tr).queue
           new == m[Len(m)]
           full == getArrivalCount(new) = Cardinality(DOMAIN processors)
       IN /\ full =>
               /\ \A i \in 1..Len(queue') : queue'[i] # new
               /\ (SurpassesThreshold(new, thresResult) <=>
                     \E i \in 1..Len(emitted') : emitted'[i] = ResultOf(new))
          /\ ~full =>
               /\ Len(queue') >= 1
               /\ queue'[Len(queue')] = new
          /\ \A i \in 1..(Len(m) - 1) :
               (getArrivalCount(m[i]) < Cardinality(DOMAIN processors)
                  /\ now > m[i].expired) =>
                 \A j \in 1..Len(queue') : queue'[j] # m[i]]_vars

\* the enabled steps of a Process call, in the order of the claim
C20_Enabled(config, tw) ==
  (IF config.demean THEN <<"demean">> ELSE <<>>)
    \o (IF config.target_frequency # 0 THEN <<"resample">> ELSE <<>>)
    \o (IF config.filter_string # "" THEN <<"filter">> ELSE <<>>)
    \o (IF NonEmpty(tw) THEN <<"trim">> ELSE <<>>)

\* C20: Process runs the enabled steps in the order demean, resample,
\* filter, trim, each once, and skips the disabled ones: the steps a call
\* ran are the enabled steps in that order, up to the step that threw.
C20_StepsInOrder ==
  [][(lastCall'.op = "Get" /\ lastCall'.ran # <<>>) =>
       LET ran == lastCall'.ran
           enabled == C20_Enabled(lastCall'.config, lastCall'.tw)
       IN /\ Len(ran) <= Len(enabled)
          /\ ran = SubSeq(enabled, 1, Len(ran))
          /\ (lastCall'.returned # {} => ran = enabled)]_vars

\* a call ran the four steps
C20_Witness ==
  /\ lastCall.op = "Get"
  /\ lastCall.ran = <<"demean", "resample", "filter", "trim">>
  /\ lastCall.returned # {}

\* the unprocessed trace of the underlying handler for a call of Get, with
\* the processing of the call applied once
C19_ProcessedOnce(call) ==
  LET unprocessed == Fetch(WithMargin(call.tw, call.config),
                           Disabled(call.config))
  IN Process(Value(unprocessed), call.config, call.tw, call.resampled).trace

\* C19: every call of Get that returns a trace returns the unprocessed trace
\* of the underlying handler with the configured processing applied once,
\* and a cache hit returns a trace equal to the one first returned for the
\* same arguments, in either caching mode.
C19_ReadThrough ==
  [][(lastCall'.op = "Get" /\ lastCall'.returned # {}) =>
       LET call == lastCall'
           args == [id |-> call.id, tw |-> call.tw, config |-> call.config,
                    resampled |-> call.resampled]
       IN /\ Value(call.returned) = C19_ProcessedOnce(call)
          /\ (call.cached /\ args \in DOMAIN script) =>
               Value(call.returned) = script[args]]_vars

\* C21: ValidateMinArrivals(n, numStreamConfigs) accepts n iff n is negative
\* or 1 <= n <= numStreamConfigs: 0 is rejected, and every n above a positive
\* numStreamConfigs is rejected.
C21_MinArrivalsWithinStreamConfigs ==
  lastCall.op = "ValidateMinArrivals" =>
    (lastCall.result <=>
       (script.n < 0 \/ (1 <= script.n /\ script.n <= script.num_stream_configs)))

\* C22: ValidateArrivalOffsetThreshold accepts a threshold iff it is negative
\* or at least 2.0e-6 s; every value from 0 up to, not including, 2.0e-6 s is
\* rejected.
C22_ArrivalOffsetThresholdRange ==
  lastCall.op = "ValidateArrivalOffsetThreshold" =>
    /\ (lastCall.result <=>
          (script.thres < 0 \/ script.thres >= kMinArrivalOffsetThreshold))
    /\ (script.thres \in 0..(kMinArrivalOffsetThreshold - 1) => ~lastCall.result)

\* the threshold 2.0e-6 s was validated and accepted
C22_Witness ==
  /\ lastCall.op = "ValidateArrivalOffsetThreshold"
  /\ script.thres = kMinArrivalOffsetThreshold
  /\ lastCall.result

\* the reference POT of a feed before its merge pass (linker.cpp 131-134)
C23_RefPot == enable(IF potValid THEN pot ELSE createPot(processors))

\* the streams of the results the event holds
C23_Present(ev) == {ev.results[q].arrival.wfId : q \in DOMAIN ev.results}

\* the merge pass runs the pick offset validation for the event
C23_Validates(ev, p, tr) ==
  /\ HasValue(thresArrivalOffset)
  /\ getArrivalCount(ev) < Cardinality(DOMAIN processors)
  /\ (p \notin DOMAIN ev.results \/ tr.coefficient > ev.results[p].coefficient)

\* the reference POT as the validation of the i-th queued event finds it: as
\* the pass over the events before it left it, with the masks for the event
C23_MaskedFor(i, p, tr) ==
  LET before == MergePass(SubSeq(queue, 1, i - 1), 1, C23_RefPot, p, tr,
                          Cardinality(DOMAIN processors), thresArrivalOffset)
  IN disable(before.pot, C23_Present(queue[i]))

\* C23: within one feed, the pick offset validation of each queued event runs
\* against the reference POT in which exactly the streams not present in that
\* event (with or without the stream of the fed result) are disabled,
\* whatever happened to the events before it, and the reference POT is fully
\* enabled when the pass ends.
C23_MasksPerEvent ==
  [][IsAcceptedFeedStep =>
       LET p == lastCall'.proc
           tr == lastCall'.res
           all == PotStreams(C23_RefPot)
       IN /\ \A i \in 1..Len(queue) :
               C23_Validates(queue[i], p, tr) =>
                 C23_MaskedFor(i, p, tr).disabled \in
                   {all \ C23_Present(queue[i]),
                    all \ (C23_Present(queue[i]) \cup {tr.arrival.wfId})}
          /\ pot'.disabled = {}]_vars

\* C24: whenever a pick offset validation runs, the reference POT is built
\* from the arrivals of exactly the processors registered at that moment: a
\* POT marked valid holds the arrivals of the registered processors, and an
\* accepted feed validates against, and leaves, the POT of the processors
\* registered at the feed, also after an add or a remove.
C24_RefPotOfRegistered ==
  /\ [](potValid => pot.arrivals = createPot(processors).arrivals)
  /\ [][IsAcceptedFeedStep =>
          /\ C23_RefPot.arrivals = createPot(processors).arrivals
          /\ potValid'
          /\ pot'.arrivals = createPot(processors').arrivals]_vars

\* processor 1 was registered anew, with another pick, after its result was
\* queued; the feed of processor 2 that followed validated the event and
\* completed it, with the POT of the processors as they are registered now
C24_Witness ==
  /\ lastCall.op = "feed"
  /\ lastCall.accepted
  /\ lastCall.proc = 2
  /\ HasValue(thresArrivalOffset)
  /\ potValid
  /\ pot.arrivals = createPot(processors).arrivals
  /\ \E i \in 1..Len(emitted) :
       /\ DOMAIN emitted[i].results = {1, 2}
       /\ emitted[i].results[1].arrival.time # processors[1].time

\* the POT of r holds as many arrivals as r holds results, one per processor
C25_PotOverResults(r) ==
  /\ Len(r.pot.arrivals) = Cardinality(DOMAIN r.results)
  /\ \A q \in DOMAIN r.results :
       Cardinality({k \in 1..Len(r.pot.arrivals) :
                      r.pot.arrivals[k].wfId = r.results[q].arrival.wfId}) = 1

\* C25: the POT stored in every queued event and in every emitted result is
\* built over exactly the arrivals the event holds: as many arrivals as the
\* event has results, one per member processor id, also after a result for a
\* processor id the event holds already was offered to it.
C25_EventPotMatchesArrivals ==
  /\ \A i \in 1..Len(queue) : C25_PotOverResults(queue[i])
  /\ \A i \in 1..Len(emitted) : C25_PotOverResults(emitted[i])

\* C26: when the coefficient of a fed result of processor p is not greater
\* than the coefficient a queued event holds for p, the merge pass leaves the
\* event as it is (results, fit, POT, refProcId, reference pick, deadline);
\* an equal coefficient does not replace the earlier result.
C26_NotGreaterLeavesEvent ==
  [][IsAcceptedFeedStep =>
       LET p == lastCall'.proc
           tr == lastCall'.res
           m == Merged(p, tr).queue
       IN \A i \in 1..Len(queue) :
            ( /\ p \in DOMAIN queue[i].results
              /\ tr.coefficient <= queue[i].results[p].coefficient )
            => m[i] = queue[i]]_vars

\* a result of the coefficient the queued event of the same processor holds
\* was fed; the event is still queued, before the new event of the feed
C26_Witness ==
  /\ lastCall.op = "feed"
  /\ lastCall.accepted
  /\ Len(queue) = 2
  /\ Cardinality(DOMAIN processors) = 2
  /\ DOMAIN queue[1].results = {lastCall.proc}
  /\ queue[1].results[lastCall.proc].coefficient = lastCall.res.coefficient
  /\ Len(queue[1].pot.arrivals) = 1

\* C27: every accepted feed appends one new event to the back of the queue
\* before the sweep; the event holds the fed result alone, its deadline is
\* now + onHold, its fit the coefficient of the result and its refProcId the
\* processor of the result; it is created whether or not the result was
\* merged into queued events, and it is the back of the queue after the feed
\* unless the sweep removed it.
C27_FeedAppendsNewEvent ==
  [][IsAcceptedFeedStep =>
       LET p == lastCall'.proc
           tr == lastCall'.res
           m == Merged(p, tr).queue
           new == m[Len(m)]
           nProcs == Cardinality(DOMAIN processors)
       IN /\ Len(m) = Len(queue) + 1
          /\ lastCall'.swept = Len(queue) + 1
          /\ DOMAIN new.results = {p}
          /\ new.results[p] = tr
          /\ new.expired = now + onHold
          /\ new.fit = tr.coefficient
          /\ new.refProcId = p
          /\ new.pot.arrivals = <<tr.arrival>>
          /\ (nProcs > 1 /\ now < new.expired) =>
               /\ queue' # <<>>
               /\ queue'[Len(queue')] = new]_vars

\* a feed completed a queued event, which its sweep emitted, and its new
\* event, of the fed result alone, is the back of the queue
C27_Witness ==
  /\ lastCall.op = "feed"
  /\ lastCall.accepted
  /\ Len(emitted) = 1
  /\ Cardinality(DOMAIN emitted[1].results) = 2
  /\ emitted[1].results[lastCall.proc] = lastCall.res
  /\ queue # <<>>
  /\ DOMAIN queue[Len(queue)].results = {lastCall.proc}
  /\ queue[Len(queue)].results[lastCall.proc] = lastCall.res
  /\ queue[Len(queue)].expired = now + onHold
  /\ onHold = 1

\* the event is removed by a sweep at time now: it is fully associated or
\* past its deadline
C28_Removable(ev) ==
  \/ getArrivalCount(ev) = Cardinality(DOMAIN processors)
  \/ now >= ev.expired

C28_Stays(ev) == ~C28_Removable(ev)

\* C28: a feed never removes an event that is neither fully associated nor
\* past its deadline: the sweep removes exactly the events that are fully
\* associated or past their deadline, also several at once, and the other
\* events stay in the queue with their contents and in their order.
C28_SweepRemovesOnlyReadyOrExpired ==
  [][IsAcceptedFeedStep =>
       LET m == Merged(lastCall'.proc, lastCall'.res).queue
       IN /\ queue' = SelectSeq(m, C28_Stays)
          /\ \A i \in 1..Len(emitted') :
               \E j \in 1..Len(m) : C28_Removable(m[j]) /\ emitted'[i] = ResultOf(m[j])]_vars

\* one sweep removed two events from behind an event that stays: the queue
\* held two events before the feed, the feed emitted two results and the
\* older event, of two arrivals, is the queue
C28_Witness ==
  /\ lastCall.op = "feed"
  /\ lastCall.accepted
  /\ lastCall.swept = 3
  /\ Len(emitted) = 2
  /\ Len(queue) = 1
  /\ getArrivalCount(queue[1]) = 2
  /\ now < queue[1].expired

\* an event of deadline d is queued
C29_Queued(d) == \E i \in 1..Len(queue) : queue[i].expired = d

\* a call that the claim expects to keep occurring: an accepted feed, a
\* terminate() or a reset()
C29_Call ==
  \/ IsAcceptedFeedStep
  \/ (lastCall'.op \in {"terminate", "reset"} /\ now' = now)

\* C29: every event that enters the queue leaves it, provided terminate() or
\* reset() is called or accepted feeds keep occurring as time advances: no
\* event at or past its deadline is in the queue after an accepted feed,
\* terminate() and reset() leave the queue empty, and, when such calls keep
\* occurring, an event whose deadline the clock reaches is eventually out of
\* the queue.
C29_EventsLeave ==
  /\ [][IsAcceptedFeedStep =>
          \A i \in 1..Len(queue') : now < queue'[i].expired]_vars
  /\ [][(lastCall'.op \in {"terminate", "reset"} /\ now' = now) =>
          queue' = <<>>]_vars
  /\ \A d \in 0..MaxTime :
       []<><<C29_Call>>_vars => (C29_Queued(d) ~> ~C29_Queued(d))

\* a feed at the deadline of a queued event removed the event without
\* emitting it, and queued its new event
C29_Witness ==
  /\ lastCall.op = "feed"
  /\ lastCall.accepted
  /\ lastCall.swept = 2
  /\ emitted = <<>>
  /\ Len(queue) = 1
  /\ onHold = 1
  /\ now = 1
  /\ queue[1].expired = now + onHold

\* the number of the feed that created the event or the result r: the
\* earliest pick it holds
C30_Created(r) ==
  CHOOSE t \in {r.results[q].arrival.time : q \in DOMAIN r.results} :
    \A q \in DOMAIN r.results : t <= r.results[q].arrival.time

\* C30: events are processed in insertion order: the queue holds the events
\* from the oldest to the newest, and the results a sweep or terminate()
\* emits in one call are emitted in the order their events were created.
C30_InsertionOrder ==
  /\ \A i, j \in 1..Len(queue) :
       i < j => C30_Created(queue[i]) < C30_Created(queue[j])
  /\ \A i, j \in 1..Len(emitted) :
       i < j => C30_Created(emitted[i]) < C30_Created(emitted[j])

\* one call emitted the results of two events, the one of the older event
\* first
C30_Witness ==
  /\ Len(emitted) = 2
  /\ C30_Created(emitted[1]) < C30_Created(emitted[2])
  /\ lastCall.op = "feed"

\* C31: for every accepted feed, the pick time of the arrival stored with the
\* result, in the new event and in every event that takes the result in, is
\* the start of the match result's time window + its lag + (the template
\* pick - the template start time); the arrival keeps the stream of the
\* template arrival, and the template arrival registered for the processor
\* is not modified.
C31_PickRecomputed ==
  [][IsAcceptedFeedStep =>
       LET p == script'.proc
           tr == lastCall'.res
           t == script'.start + script'.lag + (processors[p].time - script'.tst)
           m == Merged(p, tr).queue
       IN /\ lastCall'.proc = p
          /\ tr.arrival.time = t
          /\ tr.arrival.wfId = processors[p].wfId
          /\ m[Len(m)].results[p].arrival.time = t
          /\ \A i \in 1..Len(queue) :
               (p \notin DOMAIN queue[i].results /\ p \in DOMAIN m[i].results)
                 => m[i].results[p].arrival.time = t
          /\ \A i \in 1..Len(emitted') :
               emitted'[i].results[p] = tr => emitted'[i].results[p].arrival.time = t
          /\ processors' = processors]_vars

\* a result was fed whose pick differs from the template pick, from the start
\* of its time window and from their sum; the feed merged it into a queued
\* event, which was emitted
C31_Witness ==
  /\ lastCall.op = "feed"
  /\ lastCall.accepted
  /\ script.tst = 1
  /\ script.lag = 1
  /\ script.start = 1
  /\ processors[script.proc].time = 2
  /\ Len(emitted) = 1
  /\ Cardinality(DOMAIN emitted[1].results) = 2
  /\ emitted[1].results[script.proc].arrival.time = 3

\* the unprocessed trace the underlying handler returns for a raw cache key
C32_Unprocessed(key) ==
  Value(Fetch(key.tw, Disabled(CHOOSE c \in ProcessingConfigs : TRUE)))

\* C32: in raw-caching mode the trace stored in the cache is never modified:
\* after any sequence of Get calls, misses and hits, with any processing
\* configs, the cached entry of a key is the unprocessed trace the underlying
\* handler returned for it.
C32_RawCacheUnmodified ==
  raw => \A key \in DOMAIN cache : cache[key] = C32_Unprocessed(key)

\* the trace a caller is to receive: the unprocessed trace of the underlying
\* handler with the processing of the config applied once
C33_ProcessedOnce ==
  Process(Value(Fetch(WithMargin(ThreadTimeWindow, script.config),
                      Disabled(script.config))),
          script.config, ThreadTimeWindow, TRUE).trace

\* C33: when two threads call Get on one cache for the same key, under every
\* interleaving of their lookups, fetches, stores and processing steps each
\* caller receives the unprocessed trace with the processing applied exactly
\* once, and the trace a caller holds is not changed by the other caller.
C33_ConcurrentGet ==
  \A t \in ThreadIds :
    script.pc[t] = "done" =>
      /\ script.ret[t] = {C33_ProcessedOnce}
      /\ script.heap[script.ptr[t]] = C33_ProcessedOnce

\* every step the config asks for shows in the trace: it has the target
\* frequency, it went through the filter, it covers the window asked for
C34_StepsDone(trace, config, tw) ==
  /\ config.target_frequency > 0 => trace.freq = config.target_frequency
  /\ config.filter_string # "" =>
       /\ config.filter_string \notin InvalidFilters
       /\ \E i \in 1..Len(trace.ops) : trace.ops[i] = "filter"
  /\ NonEmpty(tw) => (trace.start = tw.start /\ trace.end = tw.end)

\* C34: if a processing step that is enabled fails (resampling, filtering or
\* trimming), Get returns no trace: a trace Get returns, and a trace the
\* cache holds as processed, went through every step its config asks for.
C34_FailedStepRaises ==
  /\ lastCall.op = "Get" =>
       /\ ~lastCall.resampled => lastCall.returned = {}
       /\ \A trace \in lastCall.returned :
            C34_StepsDone(trace, lastCall.config, lastCall.tw)
  /\ ~raw => \A key \in DOMAIN cache :
               C34_StepsDone(cache[key], key.config, key.tw)

====
